---- MODULE Spec2Model ----
(***************************************************************************)
(* A model of package benfords (src/benfords/benfords.go): the Benford     *)
(* distribution in an arbitrary base, the leading-digit extractor, the     *)
(* lead-digit distribution builder and the goodness-of-fit entry points.   *)
(*                                                                         *)
(* Numbers.                                                                *)
(*   - a sample is a float64 held bit for bit: NaN, +-Inf, 0, or           *)
(*     +-m * 2^e with a 53-bit significand m; a product is rounded to the  *)
(*     nearest float64, ties to even, as the hardware rounds it;           *)
(*   - a probability is log_Base(num/den), kept as the reduced pair        *)
(*     (num, den), with the sign of the float64 rounding residue in ulp;   *)
(*   - a Go int is a sign and big-endian limbs of 15 bits, so that the     *)
(*     64-bit values int(n) produces out of range are held exactly; the    *)
(*     53-bit significands are held in the same limbs.                     *)
(***************************************************************************)
EXTENDS Integers, Sequences, FiniteSets, TLC

VARIABLES
    pc,          \* control point: "idle", a loop head, or "done"
    op,          \* the function called last
    base,        \* its base (Benfords.Base or the base parameter)
    arg,         \* its other arguments, as passed
    outcome,     \* "none" while running, then "return" or "panic"
    msg,         \* the panic's message
    result,      \* the value returned
    reads,       \* bins of realisedDist read by a fit statistic
    n,           \* LeadDigit: n
    resid,       \* LeadDigit: resid
    caller,      \* LeadDigit: "none" (called directly) or "compute"
    values,      \* ComputeLeadDigitDistribution: values
    idx,         \* ComputeLeadDigitDistribution: position of the range loop
    validValues, \* ComputeLeadDigitDistribution: validValues
    dist         \* ComputeLeadDigitDistribution: dist

vars == <<pc, op, base, arg, outcome, msg, result, reads, n, resid, caller,
          values, idx, validValues, dist>>

---------------------------------------------------------------------------
(* Bounds of the model *)

\* bases 0..MaxBase are tried; 3..MaxBase are the valid ones
MaxBase == 5
\* TestLeadDigit's digit count (maxDigits in the test, 12 there): every digit
\* sequence of up to MaxDigits digits is tried
MaxDigits == 4
\* digit sequences made of a top digit above one repeated digit are tried up
\* to LongDigits digits
LongDigits == 27
\* fractions d / base^k are tried for k up to MaxShift
MaxShift == 4
\* longest values / strings slice handed to the distribution builder
MaxSamples == 2
\* fractions num/den with num <= MaxNum and den <= MaxDen are tried
MaxNum == 7
MaxDen == 4
\* uniform draws are the multiples of 1/PDen in [0,1), and 1 - 2^-53
PDen == 4
\* longest realisedDist handed to a fit statistic is MaxBase + ExtraBins
ExtraBins == 1

---------------------------------------------------------------------------
(* Arithmetic helpers *)

RECURSIVE GCD(_, _)
GCD(a, b) == IF b = 0 THEN a ELSE GCD(b, a % b)

RECURSIVE Pow(_, _)
Pow(b, e) == IF e = 0 THEN 1 ELSE b * Pow(b, e - 1)

Bases == 0 .. MaxBase

---------------------------------------------------------------------------
(* Go int (64 bit two's complement) as sign and 15-bit limbs *)

WLimb == 2 ^ 15

SmallInt(x) == [k |-> "int", neg |-> x < 0, w |-> <<IF x < 0 THEN -x ELSE x>>]

\* math.MinInt64 = -2^63 = -(8 * 2^60)
MinInt64 == [k |-> "int", neg |-> TRUE, w |-> <<8, 0, 0, 0, 0>>]
\* math.MaxInt64 = 2^63 - 1
MaxInt64 ==
    [k |-> "int", neg |-> FALSE,
     w |-> <<7, WLimb - 1, WLimb - 1, WLimb - 1, WLimb - 1>>]

IsSmall(r) == Len(r.w) = 1
ToInt(r) == IF r.neg THEN -(r.w[1]) ELSE r.w[1]

\* resid >= base, for 0 <= base < 2^15
IntGeq(r, b) == IF r.neg THEN FALSE ELSE (Len(r.w) > 1 \/ r.w[1] >= b)

RECURSIVE LongDiv(_, _, _, _)
\* the limbs of w \div b, schoolbook division from the top limb down
LongDiv(w, b, i, carry) ==
    IF i > Len(w) THEN <<>>
    ELSE LET cur == carry * WLimb + w[i]
         IN  <<cur \div b>> \o LongDiv(w, b, i + 1, cur % b)

RECURSIVE StripZeros(_)
StripZeros(w) ==
    IF Len(w) > 1 /\ w[1] = 0 THEN StripZeros(Tail(w)) ELSE w

RECURSIVE LongRem(_, _, _, _)
\* w % b, by the same division
LongRem(w, b, i, carry) ==
    IF i > Len(w) THEN carry ELSE LongRem(w, b, i + 1, (carry * WLimb + w[i]) % b)

\* resid % base in the place of resid / base
IntRem(r, b) ==
    [k |-> "int", neg |-> FALSE, w |-> <<LongRem(r.w, b, 1, 0)>>]

\* resid / base for resid >= base > 0 (Go's truncated division)
IntDiv(r, b) ==
    [k |-> "int", neg |-> FALSE, w |-> StripZeros(LongDiv(r.w, b, 1, 0))]

---------------------------------------------------------------------------
(* Unsigned integers of any size, as big-endian 15-bit limbs *)

RECURSIVE BitLen(_)
\* the number of bits of x >= 0
BitLen(x) == IF x = 0 THEN 0 ELSE 1 + BitLen(x \div 2)

\* the number of bits of w (w without leading zero limbs)
WBits(w) == 15 * (Len(w) - 1) + BitLen(w[1])

WOdd(w) == w[Len(w)] % 2 = 1

RECURSIVE WMulAdd(_, _, _, _)
\* the limbs of w[1..i] * c + carry, for 0 <= c < 2^15
WMulAdd(w, c, i, carry) ==
    IF i = 0 THEN (IF carry = 0 THEN <<>> ELSE <<carry>>)
    ELSE LET cur == w[i] * c + carry
         IN  WMulAdd(w, c, i - 1, cur \div WLimb) \o <<cur % WLimb>>

\* w * c + a
WMulPlus(w, c, a) == StripZeros(WMulAdd(w, c, Len(w), a))
RECURSIVE WAddFrom(_, _, _, _)
\* the limbs of a + b from the k-th lowest on
WAddFrom(a, b, k, carry) ==
    IF k >= Len(a) /\ k >= Len(b) THEN (IF carry = 0 THEN <<>> ELSE <<carry>>)
    ELSE LET cur == (IF k < Len(a) THEN a[Len(a) - k] ELSE 0)
                        + (IF k < Len(b) THEN b[Len(b) - k] ELSE 0) + carry
         IN  WAddFrom(a, b, k + 1, cur \div WLimb) \o <<cur % WLimb>>

\* a + b
WAdd(a, b) == StripZeros(WAddFrom(a, b, 0, 0))

RECURSIVE WPow(_, _)
\* b^d
WPow(b, d) == IF d = 0 THEN <<1>> ELSE WMulPlus(WPow(b, d - 1), b, 0)

\* w * 2^s
WShl(w, s) == WMulPlus(w, 2 ^ (s % 15), 0) \o [i \in 1 .. s \div 15 |-> 0]
\* w \div 2^s
WShr(w, s) ==
    LET keep == Len(w) - s \div 15
    IN  IF keep <= 0 THEN <<0>>
        ELSE StripZeros(LongDiv(SubSeq(w, 1, keep), 2 ^ (s % 15), 1, 0))

---------------------------------------------------------------------------
(* float64 samples *)

\* bits of a float64's significand
MantBits == 53
\* bits of a Go int on the 64-bit targets, sign included
IntBits == 64

NaN == [k |-> "nan", neg |-> FALSE, m |-> <<0>>, e |-> 0]
Inf(neg) == [k |-> "inf", neg |-> neg, m |-> <<0>>, e |-> 0]
FZero == [k |-> "zero", neg |-> FALSE, m |-> <<0>>, e |-> 0]
\* +-m * 2^e, with 2^52 <= m < 2^53
Float64(neg, m, e) == [k |-> "fin", neg |-> neg, m |-> m, e |-> e]

\* Operators evaluate an argument wherever they use it; an argument that
\* is costly is bound to a variable first: CHOOSE f \in {F(x) : x \in {e}} : TRUE
\* is F(e), with e evaluated once.

\* r has one bit too many after the round-up of an all-ones significand
RoundCarry(neg, r, e) ==
    IF WBits(r) > MantBits
    THEN Float64(neg, WShr(r, 1), e + 1)
    ELSE Float64(neg, r, e)

\* The float64 nearest to +-w * 2^e, ties to even (the rounding of every
\* float64 operation), for w of drop + MantBits bits, drop > 0.  sticky: the
\* real value is above w * 2^e, by less than 2^e.
RoundOff(neg, w, drop, e, sticky) ==
    CHOOSE f \in {RoundCarry(neg,
                             IF WOdd(top) /\ (sticky \/ WShl(top, drop - 1) # w \/ WOdd(q))
                             THEN WMulPlus(q, 1, 1) ELSE q,
                             e + drop) :
                     q \in {WShr(w, drop)}, top \in {WShr(w, drop - 1)}} : TRUE

\* The float64 nearest to +-w * 2^e, for any w > 0: exact when w has at most
\* MantBits bits
RoundToFloat64(neg, w, e, sticky) ==
    CHOOSE f \in {IF drop <= 0
                  THEN Float64(neg, WShl(x, -drop), e + drop)
                  ELSE RoundOff(neg, x, drop, e, sticky) :
                     x \in {w}, drop \in {WBits(w) - MantBits}} : TRUE

\* the float64 nearest to +-scaled * 2^e / den
RoundQuotient(neg, scaled, den, e) ==
    CHOOSE f \in {RoundToFloat64(neg, q, e, WMulPlus(q, den, 0) # scaled) :
                     q \in {StripZeros(LongDiv(scaled, den, 1, 0))}} : TRUE

\* the float64 a decimal literal or a division yields for +-num/den,
\* 0 < num < 2^15, 0 < den < 2^15: the quotient is taken to two bits more
\* than the significand holds
Float64Of(neg, num, den) ==
    CHOOSE f \in {RoundQuotient(neg, scaled, den, -(MantBits + 2 + BitLen(den))) :
                     scaled \in {WShl(<<num>>, MantBits + 2 + BitLen(den))}} : TRUE

\* float64(w) for an integer w > 0
IntToFloat64(w) == RoundToFloat64(FALSE, w, 0, FALSE)

\* v * float64(c) for a finite v # 0 and an integer 0 < c < 2^15
FMulInt(v, c) == RoundToFloat64(v.neg, WMulPlus(v.m, c, 0), v.e, FALSE)

\* x + y for x, y >= 0, finite
FAdd(x, y) ==
    IF x.k = "zero" THEN y
    ELSE IF y.k = "zero" THEN x
    ELSE LET e == IF x.e < y.e THEN x.e ELSE y.e
         IN  RoundToFloat64(FALSE, WAdd(WShl(x.m, x.e - e), WShl(y.m, y.e - e)), e, FALSE)

\* v != 0.0
FNonZero(v) == v.k # "zero"
\* math.IsNaN(v)
FIsNaN(v) == v.k = "nan"
\* n < 0
FLtZero(v) == v.k \in {"fin", "inf"} /\ v.neg
\* n < 1
FLtOne(v) ==
    CASE v.k = "nan" -> FALSE
      [] v.k = "inf" -> v.neg
      [] v.k = "zero" -> TRUE
      [] OTHER -> v.neg \/ v.e <= -MantBits
\* -n
FNeg(v) == IF v.k \in {"fin", "inf"} THEN [v EXCEPT !.neg = ~v.neg] ELSE v

---------------------------------------------------------------------------
(* float64 probabilities: log_Base(num/den), num/den reduced *)

LogRatio(num, den) ==
    LET g == GCD(num, den)
    IN  [k |-> "log", num |-> num \div g, den |-> den \div g, ulp |-> 0]
\* the literal 0 (log 1)
PZero == LogRatio(1, 1)
\* the literal 1.0
POne == [k |-> "one", num |-> 1, den |-> 1, ulp |-> 0]
\* math.Inf(-1)
NegInf == [k |-> "ninf", num |-> 0, den |-> 1, ulp |-> 0]

\* a + p for two logarithms in the same base
PAdd(a, p) == LogRatio(a.num * p.num, a.den * p.den)

\* p == 0.0
PIsZero(p) == p.k = "log" /\ p.num = p.den

\* the draws of rand.Float64: a/PDen in [0,1), and the largest float64 below 1
Draw(a, u) == [num |-> a, den |-> PDen, ulp |-> u]
Draws == {Draw(a, 0) : a \in 0 .. PDen - 1} \cup {Draw(PDen, -1)}

\* p < v for a draw p and a cumulative probability v = log_b(num/den):
\* a/q < log_b(N/D) iff b^a * D^q < N^q; on equal reals the residues decide
PLess(p, v, b) ==
    LET lhs == Pow(b, p.num) * Pow(v.den, p.den)
        rhs == Pow(v.num, p.den)
    IN  lhs < rhs \/ (lhs = rhs /\ p.ulp < v.ulp)

\* signs of the rounding residues of the b-1 running totals
Residues(b) == [1 .. b - 1 -> {-1, 0, 1}]

---------------------------------------------------------------------------
(* Benfords methods *)

Prob(b, x) ==
    IF x < 1 THEN PZero
    ELSE IF x > b - 1 THEN PZero
    ELSE LogRatio(x + 1, x)

LogProb(b, x) ==
    IF x < 1 \/ x > b - 1 THEN NegInf
    ELSE LET p == Prob(b, x)
         IN  IF PIsZero(p) THEN NegInf ELSE p

RECURSIVE RunningTotal(_, _)
\* the real value of runningTotal / tot after adding Prob(1) .. Prob(i)
RunningTotal(b, i) ==
    IF i = 0 THEN PZero ELSE PAdd(RunningTotal(b, i - 1), Prob(b, i))

\* the float64 held after the i-th addition
RoundedTotal(b, i, rnd) == [RunningTotal(b, i) EXCEPT !.ulp = rnd[i]]

CDF(b, x, rnd) ==
    IF x < 1 THEN PZero
    ELSE IF x > b - 1 THEN POne
    ELSE RoundedTotal(b, b - 1, rnd)

FullPDF(b) == [i \in 1 .. b - 1 |-> Prob(b, i)]

FullCDF(b, rnd) == [i \in 1 .. b - 1 |-> RoundedTotal(b, i, rnd)]

Domain(b) == [i \in 1 .. b - 1 |-> i]

RECURSIVE RandScanIndex(_, _, _, _, _)
\* RandScan returning the slice index i of the range loop, not domain[i]
RandScanIndex(cdf, domain, p, b, i) ==
    IF i > Len(cdf) THEN b - 1
    ELSE IF PLess(p, cdf[i], b) THEN i - 1
    ELSE RandScanIndex(cdf, domain, p, b, i + 1)

RECURSIVE RandScan(_, _, _, _, _)
RandScan(cdf, domain, p, b, i) ==
    IF i > Len(cdf) THEN b - 1
    ELSE IF PLess(p, cdf[i], b) THEN domain[i]
    ELSE RandScan(cdf, domain, p, b, i + 1)

Rand(b, p, rnd) == RandScan(FullCDF(b, rnd), Domain(b), p, b, 1)

\* make([]T, len) panics on a negative length
MakePanics(len) == len < 0

\* what a call ends with
Return(val, rd) == [out |-> "return", msg |-> "", val |-> val, reads |-> rd]
Panic(m, rd) == [out |-> "panic", msg |-> m, val |-> [k |-> "none"], reads |-> rd]

MakeSliceMsg == "makeslice: len out of range"
IndexMsg == "index out of range"

\* the statistic as the expression the code evaluates over the bins
Statistic(kind, b, nSamples, realisedDist) ==
    [k |-> kind, n |-> nSamples,
     terms |-> [i \in 1 .. Len(realisedDist) |->
                   <<realisedDist[i], FullPDF(b)[i]>>]]

ChoGainesStat(b, nSamples, realisedDist) ==
    IF MakePanics(b - 1) THEN Panic(MakeSliceMsg, 0)
    ELSE IF Len(FullPDF(b)) # Len(realisedDist) THEN Panic("length mismatch", 0)
    ELSE Return(Statistic("chogaines", b, nSamples, realisedDist),
                Len(realisedDist))

\* LeemisStat guarding only against a realisedDist that is too long
LeemisStatShortAllowed(b, nSamples, realisedDist) ==
    IF MakePanics(b - 1) THEN Panic(MakeSliceMsg, 0)
    ELSE IF Len(FullPDF(b)) < Len(realisedDist) THEN Panic("length mismatch", 0)
    ELSE Return(Statistic("leemis", b, nSamples, realisedDist),
                Len(realisedDist))

LeemisStat(b, nSamples, realisedDist) ==
    IF MakePanics(b - 1) THEN Panic(MakeSliceMsg, 0)
    ELSE IF Len(FullPDF(b)) # Len(realisedDist) THEN Panic("length mismatch", 0)
    ELSE Return(Statistic("leemis", b, nSamples, realisedDist),
                Len(realisedDist))

ChiSquarePValue(b, d) ==
    IF Len(d) # b - 1 THEN Panic("distribution has unexpected length", 0)
    ELSE Return([k |-> "chisquare", obs |-> FullPDF(b), exp |-> d], Len(d))

---------------------------------------------------------------------------
(* LeadDigit, one loop iteration at a time *)

\* if n < 0 { n = -n }
LeadDigitAbs(v) == IF FLtZero(v) THEN FNeg(v) ELSE v

\* n = float64(base) * n, inside the loop, where 0 <= n < 1 holds: the
\* product rounded to float64
LeadDigitMul(v, b) ==
    IF v.k = "zero" \/ b = 0 THEN FZero ELSE FMulInt(v, b)

\* int(n), n >= 1 or NaN.  Out of the range of int the Go specification leaves
\* the result to the implementation: amd64 yields MinInt64 for every such
\* value, arm64 saturates (MaxInt64) and turns NaN into 0.
IntOf(v) ==
    CASE v.k = "nan" -> {MinInt64, SmallInt(0)}
      [] v.k = "inf" -> {MinInt64, MaxInt64}
      [] v.k = "zero" -> {SmallInt(0)}
      [] v.e + MantBits >= IntBits -> {MinInt64, MaxInt64}
      [] v.e >= 0 -> {[k |-> "int", neg |-> v.neg, w |-> WShl(v.m, v.e)]}
      [] OTHER -> {[k |-> "int", neg |-> v.neg, w |-> WShr(v.m, -v.e)]}

\* dist[leadDigit-1] is inside dist
IndexOK(r, len) == ~r.neg /\ IsSmall(r) /\ 1 <= ToInt(r) /\ ToInt(r) <= len

\* ValidSample without the test against 0
ValidSampleNaNOnly(v) == ~FIsNaN(v)

\* v != 0.0 && !math.IsNaN(v)
ValidSample(v) == FNonZero(v) /\ ~FIsNaN(v)

\* v / validValues
Normalize(v, count) ==
    IF count = 0 THEN NaN
    ELSE IF v = 0 THEN FZero
    ELSE Float64Of(FALSE, v, count)

\* strconv.ParseFloat's answer for a token: a value, or an error
BadToken == [ok |-> FALSE, val |-> FZero]
Token(v) == [ok |-> TRUE, val |-> v]

RECURSIVE ParseAll(_)
\* numericValues[0:count] of ComputeLeadDigitDistributionFromStrings
ParseAll(ts) ==
    IF ts = <<>> THEN <<>>
    ELSE LET t == Head(ts)
         IN  IF t.ok /\ FNonZero(t.val) /\ ~FIsNaN(t.val)
             THEN <<t.val>> \o ParseAll(Tail(ts))
             ELSE ParseAll(Tail(ts))

RECURSIVE MulLoop(_, _)
\* the multiply loop run to its end (it ends when b >= 2 and v > 0)
MulLoop(v, b) == IF FLtOne(v) THEN MulLoop(LeadDigitMul(v, b), b) ELSE v

RECURSIVE DivLoop(_, _)
\* the divide loop run to its end (it ends when b >= 2)
DivLoop(r, b) == IF IntGeq(r, b) THEN DivLoop(IntDiv(r, b), b) ELSE r

\* the values LeadDigit(v, b) can return, for b >= 2 and v nonzero
LeadDigit(v, b) == {DivLoop(r, b) : r \in IntOf(MulLoop(LeadDigitAbs(v), b))}

---------------------------------------------------------------------------
(* The inputs tried *)

RECURSIVE SeqsUpTo(_, _)
\* the sequences over S of length 0 .. len
SeqsUpTo(S, len) ==
    IF len = 0 THEN {<<>>}
    ELSE LET shorter == SeqsUpTo(S, len - 1)
         IN  shorter \cup {Append(q, e) : q \in {r \in shorter : Len(r) = len - 1}, e \in S}

\* TestLeadDigit's digit sequences, lowest digit first
DigitSeqs(b) == SeqsUpTo(1 .. b - 1, MaxDigits) \ {<<>>}

RECURSIVE SmallSum(_, _, _, _)
\* ds[i] + ds[i+1] * b + .. + ds[hi] * b^(hi-i)
SmallSum(ds, b, i, hi) ==
    IF i > hi THEN 0 ELSE ds[i] + b * SmallSum(ds, b, i + 1, hi)

RECURSIVE DigitSum(_, _, _)
\* ds[i] + ds[i+1] * b + ds[i+2] * b^2 + .., four digits at a time
DigitSum(ds, b, i) ==
    IF i > Len(ds) THEN <<0>>
    ELSE LET hi == IF i + 3 < Len(ds) THEN i + 3 ELSE Len(ds)
         IN  WMulPlus(DigitSum(ds, b, hi + 1), Pow(b, hi - i + 1),
                      SmallSum(ds, b, i, hi))

\* math.Pow(float64(base), float64(d)): base^d, exact below 2^53 (19^12, the
\* largest power the test takes, is)
PowFloat(b, d) == IntToFloat64(WPow(b, d))

RECURSIVE Accumulate(_, _, _)
\* number after the digits ds[1] .. ds[k]:
\* number += math.Pow(float64(base), float64(d)) * float64(lastDigit)
Accumulate(ds, b, k) ==
    IF k = 0 THEN FZero
    ELSE FAdd(Accumulate(ds, b, k - 1), FMulInt(PowFloat(b, k - 1), ds[k]))

\* number, as TestLeadDigit builds it
TestNumber(ds, b) == Accumulate(ds, b, Len(ds))

\* digit sequences longer than the test's: one digit repeated below a top
\* digit
LongDigitSeqs(b) ==
    {[i \in 1 .. len |-> IF i = len THEN d ELSE c] :
        len \in MaxDigits + 1 .. LongDigits, c \in 1 .. b - 1, d \in 1 .. b - 1}

\* n for such a sequence: the float64 nearest to the sum of ds[k] * b^(k-1)
SumNumber(ds, b) == IntToFloat64(DigitSum(ds, b, 1))

Fractions ==
    {Float64Of(s, a, d) : s \in BOOLEAN, a \in 1 .. MaxNum, d \in 1 .. MaxDen}

\* d / b^k, such as 0.002 in base 10 and 0.0048 in base 5
BaseFractions(b) ==
    {Float64Of(s, d, Pow(b, k)) : s \in BOOLEAN, d \in 1 .. b - 1, k \in 1 .. MaxShift}

\* 2^(IntBits-1), the least float64 that int(n) cannot hold
TwoTo63 == IntToFloat64(WShl(<<1>>, IntBits - 1))
\* the float64 below it
BelowTwoTo63 == Float64(FALSE, WShr(MaxInt64.w, IntBits - 1 - MantBits), IntBits - 1 - MantBits)

Floats ==
    Fractions \cup {NaN, FZero, Inf(FALSE), Inf(TRUE), TwoTo63, FNeg(TwoTo63),
                    BelowTwoTo63}

\* n of LeadDigit, with the digit sequence it is the sum of (<<>>: of none)
LeadDigitInputs(b) ==
    {<<f, <<>>>> : f \in Floats \cup BaseFractions(b)}
        \cup (IF b >= 3
              THEN {<<TestNumber(ds, b), ds>> : ds \in DigitSeqs(b)}
                       \cup {<<SumNumber(ds, b), ds>> : ds \in LongDigitSeqs(b)}
              ELSE {})

Samples ==
    {NaN, FZero, TwoTo63, Float64Of(FALSE, 1, 4), Float64Of(TRUE, 7, 1),
     Float64Of(FALSE, 2, 1)}

Tokens == {BadToken} \cup {Token(v) : v \in Samples}

Bins == {FZero, Float64Of(FALSE, 1, 2)}

SampleCounts == {1, 4}

Digits == -1 .. MaxBase + 1

---------------------------------------------------------------------------
(* The state machine *)

NoValue == [k |-> "none"]

Init ==
    /\ pc = "idle"
    /\ op = "none"
    /\ base = 0
    /\ arg = [k |-> "none"]
    /\ outcome = "none"
    /\ msg = ""
    /\ result = NoValue
    /\ reads = 0
    /\ n = FZero
    /\ resid = SmallInt(0)
    /\ caller = "none"
    /\ values = <<>>
    /\ idx = 0
    /\ validValues = 0
    /\ dist = <<>>

\* a call that runs to its end in one step
Finish(o, b, a, r) ==
    /\ pc = "idle"
    /\ pc' = "done"
    /\ op' = o
    /\ base' = b
    /\ arg' = a
    /\ outcome' = r.out
    /\ msg' = r.msg
    /\ result' = r.val
    /\ reads' = r.reads
    /\ n' = FZero
    /\ resid' = SmallInt(0)
    /\ caller' = "none"
    /\ values' = <<>>
    /\ idx' = 0
    /\ validValues' = 0
    /\ dist' = <<>>

\* a call that enters a loop
Enter(o, b, a, at) ==
    /\ pc = "idle"
    /\ pc' = at
    /\ op' = o
    /\ base' = b
    /\ arg' = a
    /\ outcome' = "none"
    /\ msg' = ""
    /\ result' = NoValue
    /\ reads' = 0

\* a running call ends
Stop(out, m, val) ==
    /\ pc' = "done"
    /\ outcome' = out
    /\ msg' = m
    /\ result' = val
    /\ UNCHANGED <<op, base, arg, reads>>

CallProb ==
    /\ pc = "idle"
    /\ \E b \in Bases, x \in Digits :
           Finish("Prob", b, [x |-> x], Return(Prob(b, x), 0))

CallLogProb ==
    /\ pc = "idle"
    /\ \E b \in Bases, x \in Digits :
           Finish("LogProb", b, [x |-> x], Return(LogProb(b, x), 0))

CallCDF ==
    /\ pc = "idle"
    /\ \E b \in Bases, x \in Digits : \E rnd \in Residues(b) :
           Finish("CDF", b, [x |-> x, rnd |-> rnd], Return(CDF(b, x, rnd), 0))

CallFullPDF ==
    /\ pc = "idle"
    /\ \E b \in Bases :
           Finish("FullPDF", b, [k |-> "none"],
                  IF MakePanics(b - 1) THEN Panic(MakeSliceMsg, 0)
                  ELSE Return([k |-> "floats", v |-> FullPDF(b)], 0))

CallFullCDF ==
    /\ pc = "idle"
    /\ \E b \in Bases : \E rnd \in Residues(b) :
           Finish("FullCDF", b, [rnd |-> rnd],
                  IF MakePanics(b - 1) THEN Panic(MakeSliceMsg, 0)
                  ELSE Return([k |-> "floats", v |-> FullCDF(b, rnd)], 0))

CallDomain ==
    /\ pc = "idle"
    /\ \E b \in Bases :
           Finish("Domain", b, [k |-> "none"],
                  IF MakePanics(b - 1) THEN Panic(MakeSliceMsg, 0)
                  ELSE Return([k |-> "ints", v |-> Domain(b)], 0))

CallRand ==
    /\ pc = "idle"
    /\ \E b \in Bases, p \in Draws : \E rnd \in Residues(b) :
           Finish("Rand", b, [p |-> p, rnd |-> rnd],
                  IF MakePanics(b - 1) THEN Panic(MakeSliceMsg, 0)
                  ELSE Return(SmallInt(Rand(b, p, rnd)), 0))

CallChoGainesStat ==
    /\ pc = "idle"
    /\ \E b \in Bases, ns \in SampleCounts, rd \in SeqsUpTo(Bins, MaxBase + ExtraBins) :
           Finish("ChoGainesStat", b, [nSamples |-> ns, realisedDist |-> rd],
                  ChoGainesStat(b, ns, rd))

CallLeemisStat ==
    /\ pc = "idle"
    /\ \E b \in Bases, ns \in SampleCounts, rd \in SeqsUpTo(Bins, MaxBase + ExtraBins) :
           Finish("LeemisStat", b, [nSamples |-> ns, realisedDist |-> rd],
                  LeemisStat(b, ns, rd))

CallChiSquarePValue ==
    /\ pc = "idle"
    /\ \E b \in Bases, rd \in SeqsUpTo(Bins, MaxBase + ExtraBins) :
           Finish("ChiSquarePValue", b, [dist |-> rd], ChiSquarePValue(b, rd))

\* LeadDigit(v, b), called directly: lines 144-146
CallLeadDigit ==
    /\ pc = "idle"
    /\ \E b \in Bases : \E v \in LeadDigitInputs(b) :
           /\ Enter("LeadDigit", b, [n |-> v[1], digits |-> v[2]], "ld_mul")
           /\ n' = LeadDigitAbs(v[1])
           /\ resid' = SmallInt(0)
           /\ caller' = "none"
           /\ values' = <<>>
           /\ idx' = 0
           /\ validValues' = 0
           /\ dist' = <<>>

\* for n < 1 { n = float64(base) * n }
LDMul ==
    /\ pc = "ld_mul"
    /\ FLtOne(n)
    /\ n' = LeadDigitMul(n, base)
    /\ UNCHANGED <<pc, op, base, arg, outcome, msg, result, reads, resid,
                   caller, values, idx, validValues, dist>>

\* resid := int(n)
LDInt ==
    /\ pc = "ld_mul"
    /\ ~FLtOne(n)
    /\ \E r \in IntOf(n) : resid' = r
    /\ pc' = "ld_div"
    /\ UNCHANGED <<op, base, arg, outcome, msg, result, reads, n, caller,
                   values, idx, validValues, dist>>

\* for resid >= base { resid = resid / base }
LDDiv ==
    /\ pc = "ld_div"
    /\ IntGeq(resid, base)
    /\ IF base = 0
       THEN /\ Stop("panic", "integer divide by zero", NoValue)
            /\ UNCHANGED resid
       ELSE /\ resid' = IntDiv(resid, base)
            /\ UNCHANGED <<pc, op, base, arg, outcome, msg, result, reads>>
    /\ UNCHANGED <<n, caller, values, idx, validValues, dist>>

\* return resid
LDReturn ==
    /\ pc = "ld_div"
    /\ ~IntGeq(resid, base)
    /\ IF caller = "none"
       THEN Stop("return", "", resid)
       ELSE /\ pc' = "cd_tally"
            /\ UNCHANGED <<op, base, arg, outcome, msg, result, reads>>
    /\ UNCHANGED <<n, resid, caller, values, idx, validValues, dist>>

\* the make and the loop head of ComputeLeadDigitDistribution
ComputeLeadDigitDistribution(o, b, a, vs) ==
    IF MakePanics(b - 1)
    THEN Finish(o, b, a, Panic(MakeSliceMsg, 0))
    ELSE /\ Enter(o, b, a, "cd_loop")
         /\ n' = FZero
         /\ resid' = SmallInt(0)
         /\ caller' = "compute"
         /\ values' = vs
         /\ idx' = 1
         /\ validValues' = 0
         /\ dist' = [i \in 1 .. b - 1 |-> 0]

CallComputeLeadDigitDistribution ==
    /\ pc = "idle"
    /\ \E b \in Bases, vs \in SeqsUpTo(Samples, MaxSamples) :
           ComputeLeadDigitDistribution("ComputeLeadDigitDistribution", b, [values |-> vs], vs)

CallComputeLeadDigitDistributionFromStrings ==
    /\ pc = "idle"
    /\ \E b \in Bases, ts \in SeqsUpTo(Tokens, MaxSamples) :
           ComputeLeadDigitDistribution("ComputeLeadDigitDistributionFromStrings", b,
                   [strings |-> ts], ParseAll(ts))

\* a value the filter of line 168 drops
CDSkip ==
    /\ pc = "cd_loop"
    /\ idx <= Len(values)
    /\ ~ValidSample(values[idx])
    /\ idx' = idx + 1
    /\ UNCHANGED <<pc, op, base, arg, outcome, msg, result, reads, n, resid,
                   caller, values, validValues, dist>>

\* a value it keeps: validValues++ and the call of LeadDigit
CDLeadDigit ==
    /\ pc = "cd_loop"
    /\ idx <= Len(values)
    /\ ValidSample(values[idx])
    /\ validValues' = validValues + 1
    /\ n' = LeadDigitAbs(values[idx])
    /\ pc' = "ld_mul"
    /\ UNCHANGED <<op, base, arg, outcome, msg, result, reads, resid, caller,
                   values, idx, dist>>

\* dist[leadDigit-1]++
CDTally ==
    /\ pc = "cd_tally"
    /\ IF IndexOK(resid, Len(dist))
       THEN /\ dist' = [dist EXCEPT ![ToInt(resid)] = @ + 1]
            /\ idx' = idx + 1
            /\ pc' = "cd_loop"
            /\ UNCHANGED <<op, base, arg, outcome, msg, result, reads>>
       ELSE /\ Stop("panic", IndexMsg, NoValue)
            /\ UNCHANGED <<dist, idx>>
    /\ UNCHANGED <<n, resid, caller, values, validValues>>

\* the normalising loop and the return
CDNormalize ==
    /\ pc = "cd_loop"
    /\ idx > Len(values)
    /\ LET normal == [i \in 1 .. Len(dist) |-> Normalize(dist[i], validValues)]
       IN  /\ dist' = normal
           /\ Stop("return", "", [k |-> "dist", dist |-> normal, count |-> validValues])
    /\ UNCHANGED <<n, resid, caller, values, idx, validValues>>

Next ==
    \/ CallProb
    \/ CallLogProb
    \/ CallCDF
    \/ CallFullPDF
    \/ CallFullCDF
    \/ CallDomain
    \/ CallRand
    \/ CallChoGainesStat
    \/ CallLeemisStat
    \/ CallChiSquarePValue
    \/ CallLeadDigit
    \/ LDMul
    \/ LDInt
    \/ LDDiv
    \/ LDReturn
    \/ CallComputeLeadDigitDistribution
    \/ CallComputeLeadDigitDistributionFromStrings
    \/ CDSkip
    \/ CDLeadDigit
    \/ CDTally
    \/ CDNormalize

Spec == Init /\ [][Next]_vars

\* the calls run sequentially: a loop that can take a step takes it
Steps == LDMul \/ LDInt \/ LDDiv \/ LDReturn \/ CDSkip \/ CDLeadDigit \/ CDTally \/ CDNormalize

FairSpec == Spec /\ WF_vars(Steps)

---------------------------------------------------------------------------
(* The claims *)

ComputeOps ==
    {"ComputeLeadDigitDistribution", "ComputeLeadDigitDistributionFromStrings"}
FitOps == {"ChoGainesStat", "LeemisStat", "ChiSquarePValue"}

\* the samples the distribution builder was handed, after parsing
GivenSamples ==
    IF op = "ComputeLeadDigitDistribution" THEN arg.values ELSE ParseAll(arg.strings)
\* the positions of the valid ones
ValidAt(vs) == {i \in 1 .. Len(vs) : FNonZero(vs[i]) /\ ~FIsNaN(vs[i])}
\* the distribution handed to a fit statistic
GivenDist == IF op = "ChiSquarePValue" THEN arg.dist ELSE arg.realisedDist

\* equal as real numbers, the rounding residue set aside
PSame(a, c, b) ==
    LET real(p) == IF p.k = "one" THEN <<"log", b, 1>> ELSE <<p.k, p.num, p.den>>
    IN  real(a) = real(c)
\* p <= 0
PLeqZero(p) == p.k = "ninf" \/ (p.k = "log" /\ p.num <= p.den)

\* C1: for base >= 3, CDF(x) is 0 for x < 1, 1 for x >= base-1, and for
\* 1 <= x < base-1 the partial sum Prob(1) + ... + Prob(x) = FullCDF()[x-1].
C1_CDFIsPartialSum ==
    (pc = "done" /\ op = "CDF" /\ base >= 3) =>
        /\ arg.x < 1 => PSame(result, PZero, base)
        /\ arg.x >= base - 1 => PSame(result, POne, base)
        /\ (1 <= arg.x /\ arg.x < base - 1) =>
               result = FullCDF(base, arg.rnd)[arg.x]

\* C2: for base >= 3, the distribution builder (numeric or text) handed no
\* valid sample fails with "no valid samples" and returns no distribution.
C2_NoValidSamplesFails ==
    (pc = "done" /\ op \in ComputeOps /\ base >= 3 /\ ValidAt(GivenSamples) = {}) =>
        /\ outcome # "return"
        /\ msg = "no valid samples"

\* C3: for base >= 3, LogProb(x) is -Inf outside [1, base-1] or where Prob(x)
\* is 0, and otherwise the natural logarithm of Prob(x): a value <= 0 that
\* differs from Prob(x).
C3_LogProbIsLogarithm ==
    (pc = "done" /\ op = "LogProb" /\ base >= 3) =>
        IF arg.x < 1 \/ arg.x > base - 1 \/ PIsZero(Prob(base, arg.x))
        THEN result = NegInf
        ELSE PLeqZero(result) /\ result # Prob(base, arg.x)

\* the sum of the digits ds is below 2^53: a float64 holds it exactly
ExactSum(ds, b) == WBits(DigitSum(ds, b, 1)) <= MantBits

\* C4, as stated: for base >= 3 and every digit sequence d_0 .. d_(m-1) over
\* 1..base-1, of any length m, LeadDigit(n, base) returns d_(m-1) for n the
\* float64 of the sum of d_k * base^k.
C4_LeadDigitOfDigitSum ==
    (pc = "done" /\ op = "LeadDigit" /\ base >= 3 /\ arg.digits # <<>>) =>
        outcome = "return" /\ result = SmallInt(arg.digits[Len(arg.digits)])

\* C4, amended: for base >= 3 and every digit sequence d_0 .. d_(m-1) over
\* 1..base-1 whose sum of d_k * base^k is below 2^53 (every sequence of at
\* most 12 digits in a base up to 19 is one), LeadDigit(sum, base) returns
\* d_(m-1).
C4_LeadDigitOfExactDigitSum ==
    (pc = "done" /\ op = "LeadDigit" /\ base >= 3 /\ arg.digits # <<>>
        /\ ExactSum(arg.digits, base)) =>
        outcome = "return" /\ result = SmallInt(arg.digits[Len(arg.digits)])

\* 22 digits in base 5 (a sum just below 2^53), the top one 4 above 1s
C4_Witness ==
    /\ pc = "done"
    /\ op = "LeadDigit"
    /\ base = 5
    /\ Len(arg.digits) = 22
    /\ arg.digits[1] = 1
    /\ ExactSum(arg.digits, base)
    /\ outcome = "return"
    /\ result = SmallInt(4)

\* C5: a fit statistic (Cho-Gaines, Leemis, Chi-square p-value) handed a
\* distribution whose length is not Base-1 panics with its length-mismatch
\* message, having read no bin, and returns no value.  (Base >= 1: below that
\* no ideal PDF exists to compare the length with.)
C5_LengthMismatchPanics ==
    (pc = "done" /\ op \in FitOps /\ base >= 1 /\ Len(GivenDist) # base - 1) =>
        /\ outcome = "panic"
        /\ msg = (IF op = "ChiSquarePValue"
                  THEN "distribution has unexpected length" ELSE "length mismatch")
        /\ reads = 0
        /\ result = NoValue

C5_Witness ==
    /\ pc = "done"
    /\ op = "LeemisStat"
    /\ base = 4
    /\ Len(arg.realisedDist) = 2
    /\ outcome = "panic"

\* C6: every operation called with base < 3 ends in a failure, never in a
\* normal return.
C6_SmallBaseFails ==
    (pc = "done" /\ base < 3) => outcome = "panic"

\* C7: for base >= 3 and a draw p, Rand returns the smallest digit whose
\* FullCDF entry is greater than p, Base-1 when there is none, and so always
\* a member of Domain().
C7_RandIsInverseCDF ==
    (pc = "done" /\ op = "Rand" /\ base >= 3) =>
        LET cdf == FullCDF(base, arg.rnd)
            above == {d \in 1 .. base - 1 : PLess(arg.p, cdf[d], base)}
            r == ToInt(result)
        IN  /\ outcome = "return"
            /\ above # {} => (r \in above /\ \A d \in above : r <= d)
            /\ above = {} => r = base - 1
            /\ \E i \in DOMAIN Domain(base) : Domain(base)[i] = r

C7_Witness ==
    /\ pc = "done"
    /\ op = "Rand"
    /\ base = 4
    /\ arg.p = Draw(PDen, -1)
    /\ \A d \in 1 .. 3 : ~PLess(arg.p, FullCDF(4, arg.rnd)[d], 4)
    /\ result = SmallInt(3)

\* C8: for base >= 3 and at least one valid sample, the distribution builder
\* returns the number of samples that are neither 0 nor NaN, and a
\* distribution of length base-1 whose entry d is (valid samples with lead
\* digit d) / count, the entries summing to 1.
C8_DistributionIsRelativeFrequency ==
    (pc = "done" /\ op \in ComputeOps /\ base >= 3 /\ ValidAt(GivenSamples) # {}) =>
        LET vs == GivenSamples
            count == Cardinality(ValidAt(vs))
            tally(d) ==
                Cardinality({i \in ValidAt(vs) : SmallInt(d) \in LeadDigit(vs[i], base)})
        IN  /\ outcome = "return"
            /\ result.count = count
            /\ Len(result.dist) = base - 1
            /\ \A d \in 1 .. base - 1 :
                   result.dist[d] = (IF tally(d) = 0 THEN FZero
                                     ELSE Float64Of(FALSE, tally(d), count))
            /\ \A i \in ValidAt(vs) : \E d \in 1 .. base - 1 :
                   SmallInt(d) \in LeadDigit(vs[i], base)

\* C9: for base >= 3 and every nonzero n, LeadDigit(n, base) is in
\* [1, base-1] and is what LeadDigit(-n, base) returns.
C9_LeadDigitInRange ==
    (pc = "done" /\ op = "LeadDigit" /\ base >= 3
        /\ FNonZero(arg.n) /\ ~FIsNaN(arg.n)) =>
        /\ outcome = "return"
        /\ IndexOK(result, base - 1)
        /\ result \in LeadDigit(FNeg(arg.n), base)

\* C10: for base >= 3 the distribution builder never hands 0 or NaN to
\* LeadDigit, and it ends; so does LeadDigit on every nonzero number.
C10_ComputeTerminates ==
    /\ [](op \in ComputeOps /\ base >= 3 /\ pc \in {"ld_mul", "ld_div"}
            => FNonZero(n) /\ ~FIsNaN(n))
    /\ [](op \in ComputeOps /\ base >= 3 => <>(pc = "done"))
    /\ [](op = "LeadDigit" /\ base >= 3 /\ FNonZero(n) /\ ~FIsNaN(n)
            => <>(pc = "done"))

C10_Witness ==
    /\ pc = "done"
    /\ op = "ComputeLeadDigitDistribution"
    /\ base = 3
    /\ arg.values = <<FZero, Float64Of(FALSE, 1, 4)>>
    /\ outcome = "return"
    /\ result.count = 1

====
